---- MODULE Spec2Model ----
(***************************************************************************)
(* Gesture/hotkey controlled volume utilities.                             *)
(*                                                                         *)
(*   masterAudioContolKivy.py  speaker volume widget (slider, keys, poll)  *)
(*   teams3micKivy.py          microphone hotkeys + Kivy status window     *)
(*   teams3mute.py             microphone hotkeys, console main loop       *)
(*                                                                         *)
(* Scalar levels are counted in thousandths (0.001): 1.0 is 1000, the      *)
(* 5% key step is 50, the polling epsilon 0.005 is 5.  Percentages are     *)
(* counted in hundredths of a percent: 100.0% is 10000, STEP_PERCENT 500.  *)
(***************************************************************************)
EXTENDS Integers, Sequences, FiniteSets, TLC

VARIABLES
    \* ---- masterAudioContolKivy.py ----
    volume_scalar,      \* VolumeControlWidget.volume_scalar (cached level)
    is_muted,           \* VolumeControlWidget.is_muted (cached mute flag)
    slider_value,       \* VolumeControlWidget.volume_slider.value
    status_text,        \* VolumeControlWidget.status_text
    spkLevel,           \* speaker endpoint: master volume scalar
    spkMute,            \* speaker endpoint: mute flag
    last,               \* what the last handler of the widget did (history)
    \* ---- teams3micKivy.py and teams3mute.py ----
    micLevel,           \* capture endpoint: master volume scalar
    micMute,            \* capture endpoint: mute flag
    micUp,              \* the capture device is present
    hooks,              \* hotkeys registered with the keyboard module
    hk,                 \* the hotkey handler threads
    mainCom,            \* CoInitialize calls of the main thread not yet undone
    \* ---- teams3micKivy.py ----
    appPc,              \* MicApp: "new", "running", "stopping", "stopped"
    cached_interface,   \* MicApp.cached_interface
    display,            \* MicController: vol_bar.value and the MUTED label
    tick,               \* what the last check_mic_status did (history)
    \* ---- teams3mute.py ----
    mainPc,             \* position of the __main__ block
    stop_event,         \* threading.Event stop_event
    \* ---- history ----
    run,                \* +5% steps applied in a row since level 0.0
    conc,               \* hotkey commands applied since the threads were idle
    pair                \* toggle_mute calls in a row, and the state before them

masterVars == <<volume_scalar, is_muted, slider_value, status_text,
                spkLevel, spkMute, last>>
endpointVars == <<micLevel, micMute, micUp>>
appVars == <<appPc, cached_interface, display, tick>>
mainVars == <<mainPc, stop_event>>
histVars == <<run, conc, pair>>

vars == <<volume_scalar, is_muted, slider_value, status_text, spkLevel,
          spkMute, last, micLevel, micMute, micUp, hooks, hk, mainCom,
          appPc, cached_interface, display, tick, mainPc, stop_event, run, conc,
          pair>>

----------------------------------------------------------------------------
(* Scalars and the sets the environment draws from *)

ScalarMin == 0
ScalarMax == 1000
VOLUME_STEP == 50
POLL_EPSILON == 5

\* Levels another application or a hardware key may set on the endpoint.
ExtLevels == {0, 300, 500, 503, 506, 700, 1000}
\* Levels a slider value event may carry: Slider(min=0, max=1, step=0.01) keeps
\* a dragged value in range, a value assigned to Slider.value is taken as is.
ReqLevels == {-500, 0, 300, 1000, 1500}

\* The outcomes of the n backend calls a handler makes at most: TRUE returns,
\* FALSE raises.
Outcomes(n) == [1..n -> BOOLEAN]

\* What the actions of one part leave alone.
MasterFrame == UNCHANGED <<micLevel, micMute, micUp, hooks, hk, mainCom, appPc,
                           cached_interface, display, tick, mainPc, stop_event>>
ThreadFrame == UNCHANGED <<masterVars, micUp, hooks, mainCom, appVars, mainVars>>
EnvFrame == UNCHANGED <<masterVars, hooks, hk, mainCom, appPc, display, mainVars>>
AppFrame == UNCHANGED <<masterVars, endpointVars, hk, mainVars>>
MainFrame == UNCHANGED <<masterVars, endpointVars, hk, appVars>>

Abs(x) == IF x < 0 THEN -x ELSE x
Max(a, b) == IF a >= b THEN a ELSE b
Min(a, b) == IF a <= b THEN a ELSE b

----------------------------------------------------------------------------
(* masterAudioContolKivy.py: the pycaw backend functions.                  *)
(* A handler runs on a record s: the widget's properties (vs, sv, mu, st), *)
(* the endpoint (bl, bm), the outcomes of the backend calls still to come  *)
(* (oks: TRUE returns, FALSE raises) and a log of the calls made.          *)

\* IAudioEndpointVolume::SetMasterVolumeLevelScalar: stores a level of
\* [0.0, 1.0]; any other level is E_INVALIDARG, which comtypes raises.
SetMasterVolumeLevelScalar(s, level) ==
    LET ok == Head(s.oks) /\ level >= ScalarMin /\ level <= ScalarMax
    IN  [s EXCEPT !.oks = Tail(@),
                  !.bl = IF ok THEN level ELSE @,
                  !.raised = ~ok,
                  !.wrote = Append(@, level),
                  !.wfail = @ \/ ~ok]

SetMute(s, flag) ==
    LET ok == Head(s.oks)
    IN  [s EXCEPT !.oks = Tail(@),
                  !.bm = IF ok THEN flag ELSE @,
                  !.raised = ~ok,
                  !.wroteMute = Append(@, flag),
                  !.wfail = @ \/ ~ok]

\* get_current_volume_scalar: the level, 0.0 when the call raises.
get_current_volume_scalar(s) ==
    LET val == IF Head(s.oks) THEN s.bl ELSE 0
    IN  [val |-> val,
         s |-> [s EXCEPT !.oks = Tail(@), !.rfail = @ \/ ~Head(s.oks),
                         !.rdLevel = val]]

\* get_mute_status: GetMute() == 1, False when the call raises.
get_mute_status(s) ==
    LET val == IF Head(s.oks) THEN s.bm ELSE FALSE
    IN  [val |-> val,
         s |-> [s EXCEPT !.oks = Tail(@), !.rfail = @ \/ ~Head(s.oks),
                         !.rdMute = val]]

\* set_volume_scalar: the exception is printed and swallowed.
set_volume_scalar(s, level_scalar) ==
    [SetMasterVolumeLevelScalar(s, level_scalar) EXCEPT !.raised = FALSE]

\* set_mute_status: the exception is printed and swallowed.
set_mute_status(s, flag) ==
    [SetMute(s, flag) EXCEPT !.raised = FALSE]

----------------------------------------------------------------------------
(* VolumeControlWidget: Kivy properties dispatch to their observers only   *)
(* when the value changes.  volume_scalar is bound to the slider's value   *)
(* (line 102), the slider's value to update_volume_from_gui (line 98).     *)

RECURSIVE update_volume_from_gui(_, _)
RECURSIVE SetVolumeScalarProperty(_, _)

\* volume_slider.value = v, and its observer update_volume_from_gui.
SetSliderValue(s, v) ==
    IF v = s.sv THEN s
    ELSE update_volume_from_gui([s EXCEPT !.sv = v], v)

\* self.volume_scalar = v, and its observer volume_slider.setter('value').
SetVolumeScalarProperty(s, v) ==
    IF v = s.vs THEN s
    ELSE SetSliderValue([s EXCEPT !.vs = v], v)

update_volume_from_gui(s, value) ==
    LET s1 == set_volume_scalar(s, value)
        s2 == SetVolumeScalarProperty(s1, value)
    IN  [s2 EXCEPT !.st = "slider"]

\* update_volume_from_key without the upper clamp.
update_volume_from_key_unclamped(s, change_scalar) ==
    LET new_scalar == Max(ScalarMin, s.vs + change_scalar)
        s1 == set_volume_scalar(s, new_scalar)
        s2 == SetVolumeScalarProperty(s1, new_scalar)
    IN  [s2 EXCEPT !.st = "keyboard"]

update_volume_from_key(s, change_scalar) ==
    LET current_scalar == s.vs
        new_scalar == Max(ScalarMin, Min(ScalarMax, current_scalar + change_scalar))
        s1 == set_volume_scalar(s, new_scalar)
        s2 == SetVolumeScalarProperty(s1, new_scalar)
    IN  [s2 EXCEPT !.st = "keyboard"]

toggle_mute(s) ==
    LET new_mute_status == ~s.mu
        s1 == set_mute_status(s, new_mute_status)
    IN  [s1 EXCEPT !.mu = new_mute_status, !.st = "mute"]

\* check_external_change without the epsilon: any difference is absorbed.
check_external_change_no_epsilon(s) ==
    LET r1 == get_current_volume_scalar(s)
        r2 == get_mute_status(r1.s)
        s2 == r2.s
        s3 == IF Abs(s2.vs - r1.val) > 0
              THEN [SetVolumeScalarProperty(s2, r1.val) EXCEPT !.st = "external"]
              ELSE s2
    IN  IF s3.mu # r2.val THEN [s3 EXCEPT !.mu = r2.val] ELSE s3

check_external_change(s) ==
    LET r1 == get_current_volume_scalar(s)
        current_external_scalar == r1.val
        r2 == get_mute_status(r1.s)
        current_external_mute == r2.val
        s2 == r2.s
        s3 == IF Abs(s2.vs - current_external_scalar) > POLL_EPSILON
              THEN [SetVolumeScalarProperty(s2, current_external_scalar)
                        EXCEPT !.st = "external"]
              ELSE s2
    IN  IF s3.mu # current_external_mute
        THEN [s3 EXCEPT !.mu = current_external_mute]
        ELSE s3

----------------------------------------------------------------------------
(* The widget's handlers as actions *)

NoOp ==
    [op |-> "none", wrote |-> <<>>, wroteMute |-> <<>>, wfail |-> FALSE,
     rfail |-> FALSE, rdLevel |-> 0, rdMute |-> FALSE, escaped |-> FALSE]

\* The record a handler starts from.
Entry(oks) ==
    [vs |-> volume_scalar, sv |-> slider_value, mu |-> is_muted,
     st |-> status_text, bl |-> spkLevel, bm |-> spkMute,
     oks |-> oks, raised |-> FALSE, wrote |-> <<>>, wroteMute |-> <<>>,
     wfail |-> FALSE, rfail |-> FALSE, rdLevel |-> 0, rdMute |-> FALSE]

\* The widget and the endpoint after a handler that ended in s.
Commit(op, s) ==
    /\ volume_scalar' = s.vs
    /\ slider_value' = s.sv
    /\ is_muted' = s.mu
    /\ status_text' = s.st
    /\ spkLevel' = s.bl
    /\ spkMute' = s.bm
    /\ last' = [op |-> op, wrote |-> s.wrote, wroteMute |-> s.wroteMute,
                wfail |-> s.wfail, rfail |-> s.rfail, rdLevel |-> s.rdLevel,
                rdMute |-> s.rdMute, escaped |-> s.raised]
    /\ MasterFrame

\* A value event of the slider (line 98).
SliderEvent ==
    \E value \in ReqLevels, oks \in Outcomes(1) :
        /\ value # slider_value
        /\ Commit("gui", update_volume_from_gui(
                             [Entry(oks) EXCEPT !.sv = value], value))

\* key_press: Up arrow (273), Down arrow (274).
key_press(change_scalar, oks) ==
    Commit("key", update_volume_from_key(Entry(oks), change_scalar))

KeyUp == \E oks \in Outcomes(2) : key_press(VOLUME_STEP, oks)

KeyDown == \E oks \in Outcomes(2) : key_press(-VOLUME_STEP, oks)

\* key_press 'm', or the mute button.
ToggleMute ==
    \E oks \in Outcomes(1) :
        Commit("mute", toggle_mute(Entry(oks)))

\* Clock.schedule_interval(self.check_external_change, 0.25)
PollTick ==
    \E oks \in Outcomes(3) :
        Commit("poll", check_external_change(Entry(oks)))

\* Another application or a hardware key changes the speaker endpoint.
ExternalChange ==
    \E l \in ExtLevels, m \in BOOLEAN :
        /\ <<l, m>> # <<spkLevel, spkMute>>
        /\ spkLevel' = l
        /\ spkMute' = m
        /\ last' = [NoOp EXCEPT !.op = "ext"]
        /\ UNCHANGED <<volume_scalar, is_muted, slider_value, status_text>>
        /\ MasterFrame

----------------------------------------------------------------------------
(* teams3micKivy.py and teams3mute.py: the capture endpoint and the helpers *)

STEP_PERCENT == 500
PercentMax == 10000

\* Hotkey handler threads of the keyboard module.
NThreads == 2
Threads == 1..NThreads

AllHotkeys == {"up", "down", "mute", "quit"}

\* Levels another application may set on the capture endpoint.
MicExtLevels == {0, 500, 1000}

_scalar_to_percent(s) == Max(0, Min(PercentMax, s * 10))

_percent_to_scalar(p) == Max(ScalarMin, Min(ScalarMax, p \div 10))

\* increase_volume: the level written for a level read.
increase_level(cur) ==
    LET new_pct == Min(PercentMax, _scalar_to_percent(cur) + STEP_PERCENT)
    IN  _percent_to_scalar(new_pct)

\* decrease_volume: the level written for a level read.
decrease_level(cur) ==
    LET new_pct == Max(0, _scalar_to_percent(cur) - STEP_PERCENT)
    IN  _percent_to_scalar(new_pct)

\* toggle_mute: the flag written for a flag read.
toggled(cur_mute) == ~cur_mute

IdleThread ==
    [pc |-> "idle", cmd |-> "none", cur |-> 0, curMute |-> FALSE,
     vol |-> FALSE, inits |-> 0, uninits |-> 0, escaped |-> FALSE]

AllIdle == \A t \in Threads : hk[t].pc = "idle"

\* The keyboard module calls the handler of a registered hotkey.
HotkeyPressed(t, c) ==
    /\ hk[t].pc = "idle"
    /\ c \in hooks \ {"quit"}
    /\ hk' = [hk EXCEPT ![t] = [IdleThread EXCEPT !.pc = "CoInitialize",
                                                   !.cmd = c]]
    /\ UNCHANGED <<micLevel, micMute>>
    /\ ThreadFrame

\* The handler body reads the endpoint: GetMasterVolumeLevelScalar / GetMute.
BodyRead(t, onError) ==
    /\ hk[t].pc = "read"
    /\ hk' = [hk EXCEPT ![t] =
                IF micUp
                THEN [@ EXCEPT !.pc = "write", !.cur = micLevel,
                               !.curMute = micMute]
                ELSE onError]
    /\ UNCHANGED <<micLevel, micMute>>
    /\ ThreadFrame

\* The handler body writes: SetMasterVolumeLevelScalar / SetMute.
BodyWrite(t, onReturn, onError) ==
    /\ hk[t].pc = "write"
    /\ IF micUp
       THEN /\ micLevel' = CASE hk[t].cmd = "up" -> increase_level(hk[t].cur)
                             [] hk[t].cmd = "down" -> decrease_level(hk[t].cur)
                             [] OTHER -> micLevel
            /\ micMute' = IF hk[t].cmd = "mute" THEN toggled(hk[t].curMute)
                          ELSE micMute
            /\ hk' = [hk EXCEPT ![t] = onReturn]
       ELSE /\ hk' = [hk EXCEPT ![t] = onError]
            /\ UNCHANGED <<micLevel, micMute>>
    /\ ThreadFrame

----------------------------------------------------------------------------
(* teams3micKivy.py: safe_hotkey_execution around each handler *)

\* CoInitialize() inside the try: a failure goes to except, then finally.
SafeCoInitialize(t) ==
    /\ hk[t].pc = "CoInitialize"
    /\ \E ok \in BOOLEAN :
          hk' = [hk EXCEPT ![t] =
                   IF ok THEN [@ EXCEPT !.pc = "acquire", !.inits = @ + 1]
                   ELSE [@ EXCEPT !.pc = "finally"]]
    /\ UNCHANGED <<micLevel, micMute>>
    /\ ThreadFrame

\* vol = _get_new_interface()
SafeAcquire(t) ==
    /\ hk[t].pc = "acquire"
    /\ hk' = [hk EXCEPT ![t] =
                IF micUp THEN [@ EXCEPT !.pc = "read", !.vol = TRUE]
                ELSE [@ EXCEPT !.pc = "finally"]]
    /\ UNCHANGED <<micLevel, micMute>>
    /\ ThreadFrame

SafeRead(t) == BodyRead(t, [hk[t] EXCEPT !.pc = "finally"])

SafeWrite(t) ==
    BodyWrite(t, [hk[t] EXCEPT !.pc = "del"], [hk[t] EXCEPT !.pc = "finally"])

\* del vol
SafeDel(t) ==
    /\ hk[t].pc = "del"
    /\ hk' = [hk EXCEPT ![t] = [@ EXCEPT !.pc = "finally", !.vol = FALSE]]
    /\ UNCHANGED <<micLevel, micMute>>
    /\ ThreadFrame

\* finally: CoUninitialize()
SafeFinally(t) ==
    /\ hk[t].pc = "finally"
    /\ hk' = [hk EXCEPT ![t] = [@ EXCEPT !.pc = "return", !.uninits = @ + 1]]
    /\ UNCHANGED <<micLevel, micMute>>
    /\ ThreadFrame

\* The wrapper returns: its frame, and a vol still in it, is dropped.
SafeReturn(t) ==
    /\ hk[t].pc = "return"
    /\ hk' = [hk EXCEPT ![t] = IdleThread]
    /\ UNCHANGED <<micLevel, micMute>>
    /\ ThreadFrame

----------------------------------------------------------------------------
(* teams3mute.py: ensure_com around each handler *)

\* CoInitialize() before the try: a failure leaves the wrapper at once.
EnsureCoInitialize(t) ==
    /\ hk[t].pc = "CoInitialize"
    /\ \E ok \in BOOLEAN :
          hk' = [hk EXCEPT ![t] =
                   IF ok THEN [@ EXCEPT !.pc = "acquire", !.inits = @ + 1]
                   ELSE [@ EXCEPT !.pc = "return", !.escaped = TRUE]]
    /\ UNCHANGED <<micLevel, micMute>>
    /\ ThreadFrame

\* vol = _get_volume_interface_for_default(), inside the handler
EnsureAcquire(t) ==
    /\ hk[t].pc = "acquire"
    /\ hk' = [hk EXCEPT ![t] =
                IF micUp THEN [@ EXCEPT !.pc = "read", !.vol = TRUE]
                ELSE [@ EXCEPT !.pc = "finally"]]
    /\ UNCHANGED <<micLevel, micMute>>
    /\ ThreadFrame

\* The handler's frame, and vol with it, is gone when it returns or raises.
EnsureRead(t) == BodyRead(t, [hk[t] EXCEPT !.pc = "finally", !.vol = FALSE])

EnsureWrite(t) ==
    BodyWrite(t, [hk[t] EXCEPT !.pc = "finally", !.vol = FALSE],
                 [hk[t] EXCEPT !.pc = "finally", !.vol = FALSE])

\* finally: try CoUninitialize()
EnsureFinally(t) ==
    /\ hk[t].pc = "finally"
    /\ hk' = [hk EXCEPT ![t] = [@ EXCEPT !.pc = "return", !.uninits = @ + 1]]
    /\ UNCHANGED <<micLevel, micMute>>
    /\ ThreadFrame

\* The wrapper returns, or the exception of CoInitialize leaves it.
EnsureReturn(t) ==
    /\ hk[t].pc = "return"
    /\ hk' = [hk EXCEPT ![t] = IdleThread]
    /\ UNCHANGED <<micLevel, micMute>>
    /\ ThreadFrame

----------------------------------------------------------------------------
(* The capture device and other applications *)

DeviceDown ==
    /\ micUp
    /\ micUp' = FALSE
    /\ cached_interface' = IF cached_interface = "live" THEN "stale"
                           ELSE cached_interface
    /\ tick' = "none"
    /\ UNCHANGED <<micLevel, micMute>>
    /\ EnvFrame

DeviceUp ==
    /\ ~micUp
    /\ micUp' = TRUE
    /\ tick' = "none"
    /\ UNCHANGED <<micLevel, micMute, cached_interface>>
    /\ EnvFrame

MicExternalChange ==
    /\ micUp
    /\ \E l \in MicExtLevels, m \in BOOLEAN :
          /\ <<l, m>> # <<micLevel, micMute>>
          /\ micLevel' = l
          /\ micMute' = m
    /\ tick' = "none"
    /\ UNCHANGED <<micUp, cached_interface>>
    /\ EnvFrame

----------------------------------------------------------------------------
(* teams3micKivy.py: MicApp *)

NoDisplay == [vol |-> -1, muted |-> FALSE]

\* register_hotkeys: unhook_all_hotkeys, then the four add_hotkey calls.
register_hotkeys == AllHotkeys

\* MicApp.on_start
on_start ==
    /\ appPc = "new"
    /\ hooks' = register_hotkeys
    /\ mainCom' = mainCom + 1
    /\ cached_interface' = IF micUp THEN "live" ELSE "None"
    /\ appPc' = "running"
    /\ UNCHANGED <<display, tick>>
    /\ AppFrame

\* MicController.update_ui
update_ui(vol_pct, muted) == [vol |-> vol_pct, muted |-> muted]

\* MicApp.check_mic_status, every 0.2 s while the application runs.
check_mic_status ==
    /\ appPc = "running"
    /\ IF cached_interface = "None"
       THEN /\ tick' = "skipped"
            /\ UNCHANGED <<cached_interface, display>>
       ELSE IF cached_interface = "live" /\ micUp
       THEN /\ display' = update_ui(_scalar_to_percent(micLevel), micMute)
            /\ tick' = "updated"
            /\ UNCHANGED cached_interface
       ELSE /\ cached_interface' = IF micUp THEN "live" ELSE cached_interface
            /\ tick' = "reconnect"
            /\ UNCHANGED display
    /\ UNCHANGED <<appPc, hooks, mainCom>>
    /\ AppFrame

\* quit_program (teams3micKivy.py): the quit hotkey or the quit button.
quit_app ==
    /\ appPc = "running"
    /\ hooks' = {}
    /\ appPc' = "stopping"
    /\ UNCHANGED <<cached_interface, display, mainCom, tick>>
    /\ AppFrame

\* MicApp.on_stop, after App.stop() or when the window is closed.
on_stop ==
    /\ appPc \in {"running", "stopping"}
    /\ hooks' = {}
    /\ cached_interface' = "None"
    /\ mainCom' = mainCom - 1
    /\ appPc' = "stopped"
    /\ UNCHANGED <<display, tick>>
    /\ AppFrame

----------------------------------------------------------------------------
(* teams3mute.py: the __main__ block *)

\* register_hotkeys() (line 142)
MainRegister ==
    /\ mainPc = "register"
    /\ hooks' = register_hotkeys
    /\ mainPc' = "CoInitialize"
    /\ UNCHANGED <<mainCom, stop_event>>
    /\ MainFrame

\* CoInitialize() (line 145)
MainCoInitialize ==
    /\ mainPc = "CoInitialize"
    /\ mainCom' = mainCom + 1
    /\ mainPc' = "initial"
    /\ UNCHANGED <<hooks, stop_event>>
    /\ MainFrame

\* The initial state is printed, or the error; finally CoUninitialize().
MainInitialState ==
    /\ mainPc = "initial"
    /\ mainCom' = mainCom - 1
    /\ mainPc' = "loop"
    /\ UNCHANGED <<hooks, stop_event>>
    /\ MainFrame

\* while not stop_event.wait(timeout=0.1): pass
MainLoop ==
    /\ mainPc = "loop"
    /\ stop_event
    /\ mainPc' = "finally"
    /\ UNCHANGED <<hooks, mainCom, stop_event>>
    /\ MainFrame

\* Ctrl+C: KeyboardInterrupt is raised in the main thread, wherever it is.
\* Only the loop is inside the try whose finally unhooks the hotkeys.
KeyboardInterrupt ==
    /\ mainPc \in {"register", "CoInitialize", "initial", "loop"}
    /\ mainPc' = IF mainPc = "loop" THEN "finally" ELSE "exited"
    /\ mainCom' = IF mainPc = "initial" THEN mainCom - 1 ELSE mainCom
    /\ UNCHANGED <<hooks, stop_event>>
    /\ MainFrame

\* finally: keyboard.unhook_all_hotkeys() (lines 166-172)
MainFinally ==
    /\ mainPc = "finally"
    /\ hooks' = {}
    /\ mainPc' = "exited"
    /\ UNCHANGED <<mainCom, stop_event>>
    /\ MainFrame

\* quit_program (teams3mute.py), the handler of ctrl+alt+q
quit_program ==
    /\ "quit" \in hooks
    /\ mainPc # "exited"
    /\ hooks' = {}
    /\ stop_event' = TRUE
    /\ UNCHANGED <<mainPc, mainCom>>
    /\ MainFrame

----------------------------------------------------------------------------
(* Initial states *)

\* The class attributes read the endpoint when the class is defined
\* (lines 77-78); the slider starts at volume_scalar (line 95).
WidgetCreated ==
    /\ spkLevel \in ExtLevels
    /\ spkMute \in BOOLEAN
    /\ \E ok \in BOOLEAN :
          /\ volume_scalar = (IF ok THEN spkLevel ELSE 0)
          /\ is_muted = (IF ok THEN spkMute ELSE FALSE)
    /\ slider_value = volume_scalar
    /\ status_text = "hint"
    /\ last = NoOp

\* The widget created on an endpoint at level l, unmuted.
WidgetAt(l) ==
    /\ spkLevel = l
    /\ spkMute = FALSE
    /\ volume_scalar = l
    /\ is_muted = FALSE
    /\ slider_value = l
    /\ status_text = "hint"
    /\ last = NoOp

\* Neither microphone program started.
MicrophoneNew ==
    /\ hooks = {}
    /\ hk = [t \in Threads |-> IdleThread]
    /\ mainCom = 0
    /\ appPc = "new"
    /\ cached_interface = "unset"
    /\ display = NoDisplay
    /\ tick = "none"
    /\ mainPc = "register"
    /\ stop_event = FALSE

\* MicApp after on_start with the device present.
MicAppRunning ==
    /\ micUp = TRUE
    /\ hooks = register_hotkeys
    /\ hk = [t \in Threads |-> IdleThread]
    /\ mainCom = 1
    /\ appPc = "running"
    /\ cached_interface = "live"
    /\ display = NoDisplay
    /\ tick = "none"
    /\ mainPc = "register"
    /\ stop_event = FALSE

\* teams3mute.py in its main loop with the device present.
MuteInLoop ==
    /\ micUp = TRUE
    /\ hooks = register_hotkeys
    /\ hk = [t \in Threads |-> IdleThread]
    /\ mainCom = 0
    /\ appPc = "new"
    /\ cached_interface = "unset"
    /\ display = NoDisplay
    /\ tick = "none"
    /\ mainPc = "loop"
    /\ stop_event = FALSE

\* No toggle_mute has run: n counts the widget's calls in a row, hn the mute
\* hotkey handlers that ran through in a row.
NoPair ==
    [n |-> 0, vs |-> 0, mu |-> FALSE, bl |-> 0, bm |-> FALSE,
     hn |-> 0, ml |-> 0, mm |-> FALSE]

NoHistory ==
    /\ run = [key |-> 0, hot |-> 0]
    /\ conc = [base |-> <<0, FALSE>>, applied |-> <<>>]
    /\ pair = NoPair

NoHist == UNCHANGED histVars

----------------------------------------------------------------------------
(* masterAudioContolKivy.py *)

InitMaster ==
    /\ WidgetCreated
    /\ micLevel = 500 /\ micMute = FALSE /\ micUp = TRUE
    /\ MicrophoneNew
    /\ NoHistory

NextMaster ==
    \/ SliderEvent /\ NoHist
    \/ KeyUp /\ NoHist
    \/ KeyDown /\ NoHist
    \/ ToggleMute /\ NoHist
    \/ PollTick /\ NoHist
    \/ ExternalChange /\ NoHist

SpecMaster == InitMaster /\ [][NextMaster]_vars

----------------------------------------------------------------------------
(* teams3micKivy.py: the application (on_start, the 0.2 s clock, quitting) *)

InitMic ==
    /\ WidgetAt(500)
    /\ micLevel \in MicExtLevels /\ micMute \in BOOLEAN /\ micUp \in BOOLEAN
    /\ MicrophoneNew
    /\ NoHistory

NextMic ==
    \/ on_start /\ NoHist
    \/ check_mic_status /\ NoHist
    \/ quit_app /\ NoHist
    \/ on_stop /\ NoHist
    \/ DeviceDown /\ NoHist
    \/ DeviceUp /\ NoHist
    \/ MicExternalChange /\ NoHist

SpecMic == InitMic /\ [][NextMic]_vars

----------------------------------------------------------------------------
(* teams3micKivy.py: a hotkey handler on the keyboard module's thread while *)
(* the application runs                                                    *)

KeyboardThread == {1}

InitHotkeys ==
    /\ WidgetAt(500)
    /\ micLevel \in MicExtLevels /\ micMute \in BOOLEAN
    /\ MicAppRunning
    /\ NoHistory

NextHotkeys ==
    \/ \E t \in KeyboardThread, c \in AllHotkeys : HotkeyPressed(t, c) /\ NoHist
    \/ \E t \in KeyboardThread : SafeCoInitialize(t) /\ NoHist
    \/ \E t \in KeyboardThread : SafeAcquire(t) /\ NoHist
    \/ \E t \in KeyboardThread : SafeRead(t) /\ NoHist
    \/ \E t \in KeyboardThread : SafeWrite(t) /\ NoHist
    \/ \E t \in KeyboardThread : SafeDel(t) /\ NoHist
    \/ \E t \in KeyboardThread : SafeFinally(t) /\ NoHist
    \/ \E t \in KeyboardThread : SafeReturn(t) /\ NoHist
    \/ DeviceDown /\ NoHist
    \/ DeviceUp /\ NoHist
    \/ MicExternalChange /\ NoHist

SpecHotkeys == InitHotkeys /\ [][NextHotkeys]_vars

----------------------------------------------------------------------------
(* teams3micKivy.py: hotkey handlers on threads of their own, as the source *)
(* has them (lines 74-76).  conc records the level and flag the endpoint    *)
(* had when the threads were last all idle, and the commands written since. *)

\* Commands pressed between two moments at which every thread is idle.
MaxApplied == 3

InFlight == Cardinality({t \in Threads : hk[t].pc # "idle"})

RacePressed(t, c) ==
    /\ InFlight + (IF AllIdle THEN 0 ELSE Len(conc.applied)) < MaxApplied
    /\ HotkeyPressed(t, c)
    /\ conc' = IF AllIdle
               THEN [base |-> <<micLevel, micMute>>, applied |-> <<>>]
               ELSE conc
    /\ UNCHANGED <<run, pair>>

RaceWrite(t) ==
    /\ SafeWrite(t)
    /\ conc' = [conc EXCEPT !.applied = Append(@, hk[t].cmd)]
    /\ UNCHANGED <<run, pair>>

InitRace ==
    /\ WidgetAt(500)
    /\ micLevel \in MicExtLevels /\ micMute \in BOOLEAN
    /\ MicAppRunning
    /\ run = [key |-> 0, hot |-> 0]
    /\ conc = [base |-> <<micLevel, micMute>>, applied |-> <<>>]
    /\ pair = NoPair

NextRace ==
    \/ \E t \in Threads, c \in AllHotkeys : RacePressed(t, c)
    \/ \E t \in Threads : SafeCoInitialize(t) /\ NoHist
    \/ \E t \in Threads : SafeAcquire(t) /\ NoHist
    \/ \E t \in Threads : SafeRead(t) /\ NoHist
    \/ \E t \in Threads : RaceWrite(t)
    \/ \E t \in Threads : SafeDel(t) /\ NoHist
    \/ \E t \in Threads : SafeFinally(t) /\ NoHist
    \/ \E t \in Threads : SafeReturn(t) /\ NoHist

SpecRace == InitRace /\ [][NextRace]_vars

----------------------------------------------------------------------------
(* teams3mute.py: the main block, and the handlers on the keyboard thread *)

InitMute ==
    /\ WidgetAt(500)
    /\ micLevel \in MicExtLevels /\ micMute \in BOOLEAN /\ micUp \in BOOLEAN
    /\ MicrophoneNew
    /\ NoHistory

\* The process has not exited.
Alive == mainPc # "exited"

NextMute ==
    \/ MainRegister /\ NoHist
    \/ MainCoInitialize /\ NoHist
    \/ MainInitialState /\ NoHist
    \/ MainLoop /\ NoHist
    \/ KeyboardInterrupt /\ NoHist
    \/ MainFinally /\ NoHist
    \/ quit_program /\ NoHist
    \/ \E t \in KeyboardThread, c \in AllHotkeys :
          Alive /\ HotkeyPressed(t, c) /\ NoHist
    \/ \E t \in KeyboardThread : Alive /\ EnsureCoInitialize(t) /\ NoHist
    \/ \E t \in KeyboardThread : Alive /\ EnsureAcquire(t) /\ NoHist
    \/ \E t \in KeyboardThread : Alive /\ EnsureRead(t) /\ NoHist
    \/ \E t \in KeyboardThread : Alive /\ EnsureWrite(t) /\ NoHist
    \/ \E t \in KeyboardThread : Alive /\ EnsureFinally(t) /\ NoHist
    \/ \E t \in KeyboardThread : Alive /\ EnsureReturn(t) /\ NoHist
    \/ Alive /\ DeviceDown /\ NoHist
    \/ Alive /\ DeviceUp /\ NoHist
    \/ Alive /\ MicExternalChange /\ NoHist

SpecMute == InitMute /\ [][NextMute]_vars

----------------------------------------------------------------------------
(* The fixed 5% step, pressed again and again on a working backend with no   *)
(* other application in between: the Up/Down arrow keys of the widget, and   *)
(* the volume hotkeys of teams3mute.py handled one after another.  run counts *)
(* the +5% steps applied in a row since the level was 0.0 (-1: not known),    *)
(* and stops counting at MaxSteps.                                            *)

MaxSteps == 22

AllOk == [i \in 1..2 |-> TRUE]

Counted(n, up, newLevel) ==
    IF up THEN (IF n < 0 THEN -1 ELSE Min(n + 1, MaxSteps))
    ELSE (IF newLevel = 0 THEN 0 ELSE -1)

StepKey(change_scalar) ==
    /\ key_press(change_scalar, AllOk)
    /\ run' = [run EXCEPT !.key = Counted(@, change_scalar > 0, volume_scalar')]
    /\ UNCHANGED <<conc, pair>>

StepHotkeyWrite(t) ==
    /\ EnsureWrite(t)
    /\ run' = [run EXCEPT !.hot = Counted(@, hk[t].cmd = "up", micLevel')]
    /\ UNCHANGED <<conc, pair>>

InitStep ==
    /\ WidgetAt(0)
    /\ micLevel = 0 /\ micMute = FALSE
    /\ MuteInLoop
    /\ NoHistory

NextStep ==
    \/ StepKey(VOLUME_STEP)
    \/ StepKey(-VOLUME_STEP)
    \/ \E t \in KeyboardThread, c \in {"up", "down"} : HotkeyPressed(t, c) /\ NoHist
    \/ \E t \in KeyboardThread : EnsureCoInitialize(t) /\ NoHist
    \/ \E t \in KeyboardThread : EnsureAcquire(t) /\ NoHist
    \/ \E t \in KeyboardThread : EnsureRead(t) /\ NoHist
    \/ \E t \in KeyboardThread : StepHotkeyWrite(t)
    \/ \E t \in KeyboardThread : EnsureFinally(t) /\ NoHist
    \/ \E t \in KeyboardThread : EnsureReturn(t) /\ NoHist

SpecStep == InitStep /\ [][NextStep]_vars

----------------------------------------------------------------------------
(* toggle_mute called again and again: the mute button of the widget, and   *)
(* the mute hotkey of teams3micKivy.py handled on the keyboard thread.  pair *)
(* holds the widget's and the endpoint's state before the first call of a    *)
(* row; a polling tick or another application's change ends the row.         *)

\* Another application mutes or unmutes the speaker endpoint.
ExternalMute ==
    /\ spkMute' = ~spkMute
    /\ last' = [NoOp EXCEPT !.op = "ext"]
    /\ UNCHANGED <<volume_scalar, is_muted, slider_value, status_text, spkLevel>>
    /\ MasterFrame

PairToggleMute ==
    /\ ToggleMute
    /\ pair' = IF pair.n = 1 THEN [pair EXCEPT !.n = 2]
               ELSE [pair EXCEPT !.n = 1, !.vs = volume_scalar,
                                 !.mu = is_muted, !.bl = spkLevel,
                                 !.bm = spkMute]
    /\ UNCHANGED <<run, conc>>

PairPollTick ==
    /\ PollTick
    /\ pair' = [pair EXCEPT !.n = 0]
    /\ UNCHANGED <<run, conc>>

PairExternalMute ==
    /\ ExternalMute
    /\ pair' = [pair EXCEPT !.n = 0]
    /\ UNCHANGED <<run, conc>>

\* The mute hotkey's SetMute: a handler that raises before it has changed
\* nothing and is not counted.
PairHotkeyWrite(t) ==
    /\ SafeWrite(t)
    /\ pair' = IF ~micUp THEN pair
               ELSE IF pair.hn = 1 THEN [pair EXCEPT !.hn = 2]
               ELSE [pair EXCEPT !.hn = 1, !.ml = micLevel, !.mm = micMute]
    /\ UNCHANGED <<run, conc>>

InitToggle ==
    /\ WidgetAt(500)
    /\ micLevel = 500 /\ micMute \in BOOLEAN
    /\ MicAppRunning
    /\ NoHistory

NextToggle ==
    \/ PairToggleMute
    \/ PairPollTick
    \/ PairExternalMute
    \/ \E t \in KeyboardThread : HotkeyPressed(t, "mute") /\ NoHist
    \/ \E t \in KeyboardThread : SafeCoInitialize(t) /\ NoHist
    \/ \E t \in KeyboardThread : SafeAcquire(t) /\ NoHist
    \/ \E t \in KeyboardThread : SafeRead(t) /\ NoHist
    \/ \E t \in KeyboardThread : PairHotkeyWrite(t)
    \/ \E t \in KeyboardThread : SafeDel(t) /\ NoHist
    \/ \E t \in KeyboardThread : SafeFinally(t) /\ NoHist
    \/ \E t \in KeyboardThread : SafeReturn(t) /\ NoHist
    \/ DeviceDown /\ NoHist
    \/ DeviceUp /\ NoHist

SpecToggle == InitToggle /\ [][NextToggle]_vars

----------------------------------------------------------------------------
(* Claims about masterAudioContolKivy.py, checked under SpecMaster *)

InRange(l) == l >= ScalarMin /\ l <= ScalarMax

\* C1: when the backend write raises during a set-level command (slider or
\* key step), the cached level keeps the value it had before the command and
\* no exception escapes the command.
C1_FailedWriteKeepsCache ==
    [][(/\ last'.op \in {"gui", "key"}
        /\ last'.wfail
        /\ \A i \in DOMAIN last'.wrote : InRange(last'.wrote[i]))
          => (volume_scalar' = volume_scalar /\ ~last'.escaped)]_vars

\* C2: a polling tick during which a backend read fails is a no-op: cached
\* level and mute flag keep their values, no setter of the backend is called
\* and no exception leaves check_external_change.
C2_FailedReadTickIsNoOp ==
    [][(last'.op = "poll" /\ last'.rfail)
          => /\ volume_scalar' = volume_scalar
             /\ is_muted' = is_muted
             /\ last'.wrote = <<>>
             /\ last'.wroteMute = <<>>
             /\ ~last'.escaped]_vars

C4_PollCopiesBackendState ==
    [][(last'.op = "poll" /\ ~last'.rfail)
          => IF Abs(volume_scalar - spkLevel) <= POLL_EPSILON
                /\ is_muted = spkMute
             THEN volume_scalar' = volume_scalar /\ is_muted' = is_muted
             ELSE volume_scalar' = spkLevel /\ is_muted' = spkMute]_vars

\* C4 as amended: a polling tick treats the two fields separately.  With the
\* level and flag its getters return (the backend's when the reads succeed) it
\* sets the cached level to the returned level exactly when the two differ by
\* more than 0.005, leaves it otherwise, and sets the cached mute flag to the
\* returned flag.
C4_PollReconcilesEachField ==
    [][last'.op = "poll"
          => /\ ~last'.rfail
                   => last'.rdLevel = spkLevel /\ last'.rdMute = spkMute
             /\ volume_scalar' =
                   IF Abs(volume_scalar - last'.rdLevel) > POLL_EPSILON
                   THEN last'.rdLevel ELSE volume_scalar
             /\ is_muted' = last'.rdMute]_vars

\* A tick has run on a cached level within 0.005 of the backend's, not equal.
C4_Witness ==
    /\ last.op = "poll" /\ ~last.rfail
    /\ volume_scalar = 500 /\ spkLevel = 503
    /\ is_muted /\ spkMute

\* C5: divergence never survives a completed polling tick: after the tick the
\* cached level is within 0.5% of the backend level and the mute flags agree.
C5_TickEndsDivergence ==
    [][last'.op = "poll"
          => /\ Abs(volume_scalar' - spkLevel') <= POLL_EPSILON
             /\ is_muted' = spkMute']_vars

----------------------------------------------------------------------------
(* Claims about the microphone programs *)

\* C6: whenever the polling loop of MicApp has no working connection and the
\* device is available, a polling tick re-establishes the connection: once a
\* tick has completed with the device available, cached_interface is live.
C6_TickReconnects ==
    (appPc = "running" /\ micUp /\ tick # "none") => cached_interface = "live"

\* C7: in every hotkey handler invocation each successful CoInitialize is
\* matched by exactly one CoUninitialize, no CoUninitialize happens without a
\* successful CoInitialize, and no interface outlives the invocation.
C7_ScopedConnection ==
    \A t \in Threads :
        /\ hk[t].uninits <= hk[t].inits
        /\ hk[t].pc = "return" => hk[t].uninits = hk[t].inits
        /\ hk[t].pc = "idle" => ~hk[t].vol

\* The endpoint after command c alone, run from start to end.
Applied(st, c) ==
    CASE c = "up" -> <<increase_level(st[1]), st[2]>>
      [] c = "down" -> <<decrease_level(st[1]), st[2]>>
      [] c = "mute" -> <<st[1], toggled(st[2])>>

RECURSIVE AppliedAll(_, _)
AppliedAll(st, cmds) ==
    IF cmds = <<>> THEN st
    ELSE AppliedAll(Applied(st, Head(cmds)), Tail(cmds))

Orders(n) == {f \in [1..n -> 1..n] : \A i, j \in 1..n : i # j => f[i] # f[j]}

SerialOutcomes(st, cmds) ==
    {AppliedAll(st, [i \in 1..Len(cmds) |-> cmds[f[i]]]) : f \in Orders(Len(cmds))}

C9_CleanShutdown ==
    mainPc = "exited" => (hooks = {} /\ mainCom = 0)

\* C10: from level 0.0, k steps of +5% in a row give min(1.0, 0.05 k), so 20
\* of them give 1.0 and further ones stay there; no level leaves [0.0, 1.0],
\* a step down at 0.0 stays at 0.0, and no step raises.
C10_TwentyStepsReachFull ==
    /\ InRange(volume_scalar) /\ InRange(micLevel)
    /\ run.key >= 0 => volume_scalar = Min(ScalarMax, VOLUME_STEP * run.key)
    /\ run.hot >= 0
          => micLevel = Min(ScalarMax, _percent_to_scalar(STEP_PERCENT) * run.hot)
    /\ run.key >= 20 => volume_scalar = ScalarMax
    /\ run.hot >= 20 => micLevel = ScalarMax
    /\ ~last.escaped

\* Twenty steps up were applied in a row from 0.0, in both programs.
C10_Witness ==
    /\ run.key = 20 /\ volume_scalar = ScalarMax
    /\ run.hot = 20 /\ micLevel = ScalarMax

----------------------------------------------------------------------------
(* Claims about toggle_mute, checked under SpecToggle *)

\* C11: calling toggle_mute twice in a row, with no change by another
\* application in between, returns the mute flag to its original value in both
\* the cache and the backend, and neither call changes the cached level or the
\* backend level; likewise for the mute hotkey and the capture endpoint.
C11_ToggleTwiceRestores ==
    /\ pair.n >= 1 => volume_scalar = pair.vs /\ spkLevel = pair.bl
    /\ pair.n = 2 => is_muted = pair.mu /\ spkMute = pair.bm
    /\ pair.hn >= 1 => micLevel = pair.ml
    /\ pair.hn = 2 => micMute = pair.mm

----------------------------------------------------------------------------
(* Claims about the polling tick's effect on the backend, under SpecMaster *)

\* C12: a polling tick is read-only towards the backend: check_external_change
\* and the property observers it triggers never call the backend's level or
\* mute setter, and the backend's level and mute flag are what they were
\* before the tick.
C12_PollTickReadOnly ==
    [][last'.op = "poll"
         => /\ last'.wrote = <<>>
            /\ last'.wroteMute = <<>>
            /\ spkLevel' = spkLevel
            /\ spkMute' = spkMute]_vars

====
